---- MODULE Spec2Model ----
(***************************************************************************)
(* The bid pipeline of the auction server: envelopes handed to the         *)
(* bid-processing queue by the gateway, the consumer that runs             *)
(* BidProcessorService.processBid on each of them, the Redis lock it       *)
(* takes, the auction and bid records it reads and writes, and the         *)
(* notifications and audit entries it publishes.                           *)
(*                                                                         *)
(* The store calls of processBid (findById, save, updateMany,              *)
(* findByIdAndUpdate) are separate steps of the invocation, so that the    *)
(* invocations of different messages interleave where the event loop (or   *)
(* another instance) can interleave them.  One auction is modelled; Spec   *)
(* adds lock expiry, store exceptions and removals to the burst of         *)
(* SpecBurst.                                                              *)
(***************************************************************************)
EXTENDS Integers, FiniteSets, Sequences, TLC

\* ---------------------------------------------------------------- bounds
MaxMsgs == 3            \* envelopes delivered to the consumer in a run
StartTime == 0          \* startTime of the auction
EndTime == 1            \* endTime of the auction
MaxClock == 2           \* the server clock stops advancing here
StartingBid == 1000     \* startingBid of the auction
MaxDisturbances == 1    \* lock expiries, store exceptions and removals in a run
MaxSockets == 4         \* sockets that connect in a run
Residents == 3          \* sockets already connected when a run of the gateway starts
MaxEvents == 2          \* place-bid intents the sockets send in a run
MaxExpiries == 1        \* tokens that expire in a run
MaxHttpBids == 2        \* POST /bids requests in a run
MaxHttpMsgs == 1        \* envelopes delivered next to the POST /bids requests
MaxJoins == 1           \* join-auction intents a socket sends in a run
MaxRoomSockets == 2     \* resident sockets that join rooms; the others stay out
MaxHandshakes == 2      \* handshakes under way at the same time
MaxCacheErrors == 1     \* cache calls of the admission controller that throw in a run
MaxDisconnects == 2     \* connected sockets that disconnect in a run

\* ------------------------------------------------------ program constants
MinIncrement == 100     \* "+ 100" of minBidAmount
MaxConnectionsPerIP == 5    \* defaultOptions.maxConnectionsPerIP
MaxConnectionsPerUser == 3  \* defaultOptions.maxConnectionsPerUser
WindowSeconds == 60         \* defaultOptions.windowMs / 1000
BlockSeconds == 300         \* defaultOptions.blockDuration / 1000

Auctions == {"a1"}
Users == {"u1", "u2"}
Msgs == 1..MaxMsgs
BidAmounts == {StartingBid + MinIncrement - 1,
               StartingBid + MinIncrement,
               StartingBid + 2 * MinIncrement}

NoUser == "none"
NoAuction == [status |-> "NONE"]

\* The gateway: its sockets, the one client address they come from, and the
\* keys of the admission controller (one per address and one per user).
\* The _id of the records that BidsService.placeBid creates; one per request.
HttpBids == (MaxMsgs + 1)..(MaxMsgs + MaxHttpBids)

\* A POST /bids request that has not arrived: placeBid's locals are unset.
NoRequest ==
    [pc |-> "idle", auctionId |-> "a1", userId |-> "u1", bidAmount |-> 0, now |-> 0,
     found |-> {}]

Sockets == 1..(Residents + MaxSockets)
Addresses == {"x"}
Keys == Addresses \cup Users
Forever == -1

\* A socket before its handshake: no token read, socket.data.user unset.
NewSocket ==
    [pc |-> "idle", clientIP |-> "x", token |-> NoUser, user |-> NoUser,
     limitCheck |-> "none", userLimitCheck |-> "none",
     expired |-> FALSE, checkError |-> FALSE,
     trackError |-> FALSE, sent |-> 0, gone |-> FALSE]

\* A key that does not exist: get returns null, scard 0, getJson null.
NoCount == [value |-> 0, ttl |-> 0]
NoSet == [members |-> {}, ttl |-> 0]
NoInfo == [clientIP |-> "x", userId |-> NoUser, ttl |-> 0]

VARIABLES
    auctions,       \* the auction collection: id -> record
    users,          \* the ids of the user collection
    bids,           \* the bid collection: a set of records
    locks,          \* the auctions whose key lock:bid-processing:<id> exists
    clock,          \* server time (new Date())
    envelope,       \* the envelope of each message, once delivered
    pc,             \* where the handler invocation of each message stands
    lockAcquired,   \* processBid's local lockAcquired
    auction,        \* processBid's local auction (the record it read)
    now,            \* processBid's local now
    error,          \* the message of the error processBid threw, or "none"
    notifications,  \* what was published to the notifications exchange
    audit,          \* what was published to the audit exchange
    disturbances,   \* lock expiries, store exceptions and removals so far
    request,        \* the POST /bids requests: where placeBid stands, and its locals
    channel,        \* RabbitmqService.channel exists (the broker was reachable)
    queue,          \* the envelopes published for bid processing, not yet delivered
    sockets,        \* the sockets of the gateway: handshake position, token, data.user
    emitted,        \* the events emitted to each socket, in order
    userSockets,    \* WebsocketGateway.userSockets: user -> socket ids
    blockFlag,      \* ws-block:ip:<address>, ws-block:user:<id>: seconds left, 0 = no key
    connCount,      \* ws-connections:ip:..., ws-connections:user:...: value and seconds left
    socketSet,      \* ws-sockets:ip:..., ws-sockets:user:...: members and seconds left
    socketInfo,     \* ws-socket:<id>: the descriptor and its seconds left
    room,           \* the sockets in the socket.io room auction:<id>
    subscribedAuctions, \* socket.data.subscribedAuctions of each socket
    subscribers,    \* RedisService.subscribers: the channels that have a handler
    bus,            \* messages the subscriber connection received, not yet dispatched
    broadcast,      \* the auction events emitted to each socket, in order
    joins           \* where handleJoinAuction of each socket stands, and its locals

pipeline == <<auctions, users, bids, locks, clock, envelope, pc, lockAcquired,
              auction, now, error, notifications, audit, disturbances, request>>

cache == <<blockFlag, connCount, socketSet, socketInfo>>

rooms == <<room, subscribedAuctions, subscribers, bus, broadcast, joins>>

gateway == <<channel, queue, sockets, emitted, userSockets, cache, rooms>>

\* The gateway but for the messages on the subscriber connection.
gatewayButBus ==
    <<channel, queue, sockets, emitted, userSockets, cache, room, subscribedAuctions,
      subscribers, broadcast, joins>>

vars == <<pipeline, gateway>>

store == <<auctions, users, bids>>
locals == <<lockAcquired, auction, now, error>>
published == <<notifications, audit>>

\* getAuctionBidChannel(id), getAuctionEventsChannel(id)
BidChannel(a) == <<"bids", a>>
EventsChannel(a) == <<"events", a>>

\* No handleJoinAuction is under way on the socket.
NoJoin == [pc |-> "idle", auctionId |-> "a1", auction |-> NoAuction]

\* The gateway before any socket joined an auction: empty rooms, no channel
\* handler, nothing received.
NoRooms ==
    /\ room = [a \in Auctions |-> {}]
    /\ subscribedAuctions = [s \in Sockets |-> {}]
    /\ subscribers = {}
    /\ bus = <<>>
    /\ broadcast = [s \in Sockets |-> <<>>]
    /\ joins = [s \in Sockets |-> NoJoin]

\* publisherClient.publish(channel, message): Redis hands the message to the
\* connections subscribed to the channel at that moment, and drops it when
\* there is none.
Publish(received, message) ==
    IF message.channel \in subscribers THEN Append(received, message) ELSE received

\* Auction document as AuctionsService.create stores it when startTime <= now.
NewAuction ==
    [status |-> "ACTIVE", startTime |-> StartTime, endTime |-> EndTime,
     startingBid |-> StartingBid, currentHighestBid |-> StartingBid,
     bidCount |-> 0, winnerId |-> NoUser]

Init ==
    /\ auctions = [a \in Auctions |-> NewAuction]
    /\ users = Users
    /\ bids = {}
    /\ locks = {}
    /\ clock = StartTime
    /\ envelope = [m \in Msgs |-> [auctionId |-> "a1", userId |-> "u1", bidAmount |-> 0]]
    /\ pc = [m \in Msgs |-> "unsent"]
    /\ lockAcquired = [m \in Msgs |-> FALSE]
    /\ auction = [m \in Msgs |-> NoAuction]
    /\ now = [m \in Msgs |-> 0]
    /\ error = [m \in Msgs |-> "none"]
    /\ notifications = {}
    /\ audit = {}
    /\ disturbances = 0
    /\ request = [h \in HttpBids |-> NoRequest]
    /\ channel = TRUE
    /\ queue = <<>>
    /\ sockets = [s \in Sockets |-> NewSocket]
    /\ emitted = [s \in Sockets |-> <<>>]
    /\ userSockets = [u \in Users |-> {}]
    /\ blockFlag = [k \in Keys |-> 0]
    /\ connCount = [k \in Keys |-> NoCount]
    /\ socketSet = [k \in Keys |-> NoSet]
    /\ socketInfo = [s \in Sockets |-> NoInfo]
    /\ NoRooms

\* ------------------------------------------------------------- the cache
\* RedisService.acquireLock: SET lock:<key> '1' PX ttl NX succeeds when the
\* key does not exist.
LockFree(a) == a \notin locks

\* The release that deletes nothing.
LocksKept(a) == locks

\* RedisService.releaseLock: DEL lock:<key>, whoever set the key.
LocksAfterRelease(a) == locks \ {a}

\* The PX ttl of the lock key runs out while the key still exists.
LockExpire(a) ==
    /\ a \in locks
    /\ disturbances < MaxDisturbances
    /\ locks' = locks \ {a}
    /\ disturbances' = disturbances + 1
    /\ UNCHANGED <<store, clock, envelope, pc, locals, published>>
    /\ UNCHANGED <<gateway, request>>

\* ------------------------------------------------------ the bid processor
\* handleFailedBid(bidData, errorMessage): the BID_FAILED notification and the
\* audit entry, both carrying errorMessage. msg stands for the timestamp that
\* tells two publications of equal content apart.
FailedNotification(m, e, errorMessage) ==
    [type |-> "BID_FAILED", userId |-> e.userId, auctionId |-> e.auctionId,
     bidAmount |-> e.bidAmount, error |-> errorMessage, msg |-> m]

\* The audit entry with success: true in the place of false.
FailedAuditAsSuccess(m, e, errorMessage) ==
    [action |-> "BID_FAILED", userId |-> e.userId, auctionId |-> e.auctionId,
     success |-> TRUE, error |-> errorMessage, msg |-> m]

FailedAudit(m, e, errorMessage) ==
    [action |-> "BID_FAILED", userId |-> e.userId, auctionId |-> e.auctionId,
     success |-> FALSE, error |-> errorMessage, msg |-> m]

\* The error is published as a failure and the invocation goes on to the
\* insert instead of leaving the try block.
FailAndGoOn(m, e, message) ==
    /\ error' = [error EXCEPT ![m] = message]
    /\ notifications' = notifications \cup {FailedNotification(m, e, message)}
    /\ audit' = audit \cup {FailedAudit(m, e, message)}
    /\ pc' = [pc EXCEPT ![m] = "save"]

\* throw new Error(message) inside the try block: the catch block publishes
\* through handleFailedBid and rethrows, which leaves the finally block to run.
\* e is the envelope of the invocation.
Fail(m, e, message) ==
    /\ error' = [error EXCEPT ![m] = message]
    /\ notifications' = notifications \cup {FailedNotification(m, e, message)}
    /\ audit' = audit \cup {FailedAudit(m, e, message)}
    /\ pc' = [pc EXCEPT ![m] = "release"]

\* The first message of a run comes from u1: the users are interchangeable.
Senders(m) == IF m = 1 THEN {"u1"} ELSE Users

\* The callback of startBidProcessingConsumer parses a message and calls
\* processBid, which runs up to the result of acquireLock. The envelope is what
\* WebsocketGateway.handlePlaceBid assembled: auction and amount as the payload
\* gave them, the user of the socket.
Consume(m, a, u, amt) ==
    /\ pc[m] = "unsent"
    /\ \A k \in 1..(m - 1) : pc[k] # "unsent"
    /\ LET e == [auctionId |-> a, userId |-> u, bidAmount |-> amt] IN
         /\ envelope' = [envelope EXCEPT ![m] = e]
         /\ IF LockFree(a)
            THEN /\ locks' = locks \cup {a}
                 /\ lockAcquired' = [lockAcquired EXCEPT ![m] = TRUE]
                 /\ pc' = [pc EXCEPT ![m] = "findAuction"]
                 /\ UNCHANGED <<error, published>>
            ELSE /\ Fail(m, e, "Could not acquire lock for bid processing")
                 /\ UNCHANGED <<locks, lockAcquired>>
    /\ UNCHANGED <<store, clock, auction, now, disturbances>>

\* An envelope that reaches the consumer, whichever socket sent it.
ConsumeEnvelope(m, a, u, amt) ==
    /\ Consume(m, a, u, amt)
    /\ UNCHANGED <<gateway, request>>

\* const minBidAmount = (auction.currentHighestBid || auction.startingBid) + 100
MinBidAmount(a) ==
    (IF a.currentHighestBid # 0 THEN a.currentHighestBid ELSE a.startingBid)
        + MinIncrement

\* The comparison with <= in the place of <.
BelowOrAtMinimum(bidAmount, a) == bidAmount <= MinBidAmount(a)

\* if (bidAmount < minBidAmount) throw
BelowMinimum(bidAmount, a) == bidAmount < MinBidAmount(a)

\* if (now < auction.startTime) throw
NotStarted(t, a) == t < a.startTime

\* if (now > auction.endTime) throw
HasEnded(t, a) == t > a.endTime

\* auctionModel.findById(auctionId) and the synchronous validation that
\* follows it: now = new Date(), the status, the window, the amount.
FindAuction(m) ==
    /\ pc[m] = "findAuction"
    /\ LET e == envelope[m] IN
         IF e.auctionId \notin DOMAIN auctions
         THEN /\ Fail(m, e, "Auction not found")
              /\ UNCHANGED <<auction, now>>
         ELSE LET a == auctions[e.auctionId] IN
              /\ auction' = [auction EXCEPT ![m] = a]
              /\ now' = [now EXCEPT ![m] = clock]
              /\ IF a.status # "ACTIVE" THEN Fail(m, e, "Auction is not active")
                 ELSE IF NotStarted(clock, a)
                      THEN Fail(m, e, "Auction has not started yet")
                 ELSE IF HasEnded(clock, a) THEN Fail(m, e, "Auction has ended")
                 ELSE IF BelowMinimum(e.bidAmount, a)
                      THEN Fail(m, e, "Bid must be at least")
                 ELSE /\ pc' = [pc EXCEPT ![m] = "findUser"]
                      /\ UNCHANGED <<error, published>>
    /\ UNCHANGED <<store, locks, clock, envelope, lockAcquired, disturbances>>
    /\ UNCHANGED <<gateway, request>>

\* userModel.findById(userId)
FindUser(m) ==
    /\ pc[m] = "findUser"
    /\ IF envelope[m].userId \in users
       THEN /\ pc' = [pc EXCEPT ![m] = "save"]
            /\ UNCHANGED <<error, published>>
       ELSE Fail(m, envelope[m], "User not found")
    /\ UNCHANGED <<store, locks, clock, envelope, lockAcquired, auction, now, disturbances>>
    /\ UNCHANGED <<gateway, request>>

\* new this.bidModel({...}); the message number stands for the record's _id.
NewBid(m) ==
    [id |-> m, userId |-> envelope[m].userId, auctionId |-> envelope[m].auctionId,
     bidAmount |-> envelope[m].bidAmount, timestamp |-> now[m],
     isWinning |-> TRUE, status |-> "ACCEPTED"]

\* newBid.save()
Save(m) ==
    /\ pc[m] = "save"
    /\ bids' = bids \cup {NewBid(m)}
    /\ pc' = [pc EXCEPT ![m] = "updateMany"]
    /\ UNCHANGED <<auctions, users, locks, clock, envelope, locals, published, disturbances>>
    /\ UNCHANGED <<gateway, request>>

\* bidModel.updateMany({auctionId, isWinning: true, _id: {$ne: newBid._id}},
\*                     {isWinning: false, status: OUTBID})
Outbid(b, m) ==
    IF b.auctionId = envelope[m].auctionId /\ b.isWinning /\ b.id # m
    THEN [b EXCEPT !.isWinning = FALSE, !.status = "OUTBID"]
    ELSE b

UpdateMany(m) ==
    /\ pc[m] = "updateMany"
    /\ bids' = {Outbid(b, m) : b \in bids}
    /\ pc' = [pc EXCEPT ![m] = "updateAuction"]
    /\ UNCHANGED <<auctions, users, locks, clock, envelope, locals, published, disturbances>>
    /\ UNCHANGED <<gateway, request>>

\* The update without its $inc.
KeepBidCount(n) == n

\* $inc: { bidCount: 1 }
IncBidCount(n) == n + 1

\* auctionModel.findByIdAndUpdate(auctionId, {$set: {currentHighestBid,
\* winnerId}, $inc: {bidCount: 1}}, {new: true}); null when there is no such
\* auction.
UpdateAuction(m) ==
    /\ pc[m] = "updateAuction"
    /\ LET e == envelope[m] IN
         IF e.auctionId \in DOMAIN auctions
         THEN /\ auctions' = [auctions EXCEPT
                                ![e.auctionId].currentHighestBid = e.bidAmount,
                                ![e.auctionId].winnerId = e.userId,
                                ![e.auctionId].bidCount = IncBidCount(@)]
              /\ pc' = [pc EXCEPT ![m] = "post"]
              /\ UNCHANGED <<error, published>>
         ELSE /\ Fail(m, e, "Failed to update auction")
              /\ UNCHANGED auctions
    /\ UNCHANGED <<users, bids, locks, clock, envelope, lockAcquired, auction, now,
                   disturbances>>
    /\ UNCHANGED <<gateway, request>>

\* A store operation of processBid throws (the store is unreachable).
StoreFails(m) ==
    /\ pc[m] \in {"findAuction", "findUser", "save", "updateMany", "updateAuction"}
    /\ disturbances < MaxDisturbances
    /\ disturbances' = disturbances + 1
    /\ Fail(m, envelope[m], "store error")
    /\ UNCHANGED <<store, locks, clock, envelope, lockAcquired, auction, now>>
    /\ UNCHANGED <<gateway, request>>

\* publishBidUpdate(auctionId, {bidId, userId, auctionId, bidAmount, ...})
BidUpdate(m, e) ==
    [channel |-> BidChannel(e.auctionId), type |-> "BID_UPDATE",
     auctionId |-> e.auctionId, userId |-> e.userId, bidAmount |-> e.bidAmount,
     msg |-> m]

\* handleSuccessfulBid: the bid update it publishes on the auction's bid
\* channel, then the notifications and the audit entry.
HandleSuccessfulBid(m) ==
    /\ pc[m] = "post"
    /\ LET e == envelope[m] IN
         /\ bus' = Publish(bus, BidUpdate(m, e))
         /\ notifications' = notifications \cup
              {[type |-> "BID_SUCCESS", userId |-> e.userId,
                auctionId |-> e.auctionId, bidAmount |-> e.bidAmount,
                error |-> "none", msg |-> m],
               [type |-> "OUTBID_NOTIFICATION", userId |-> NoUser,
                auctionId |-> e.auctionId, bidAmount |-> e.bidAmount,
                error |-> "none", msg |-> m]}
         /\ audit' = audit \cup
              {[action |-> "BID_PLACED", userId |-> e.userId,
                auctionId |-> e.auctionId, success |-> TRUE, error |-> "none",
                msg |-> m]}
    /\ pc' = [pc EXCEPT ![m] = "release"]
    /\ UNCHANGED <<store, locks, clock, envelope, locals, disturbances>>
    /\ UNCHANGED <<gatewayButBus, request>>

\* The catch block of handleSuccessfulBid, were it to rethrow.
Rethrown(thrown) == thrown

\* catch (error) { this.logger.error(...) } of handleSuccessfulBid: the error
\* is logged and not passed on.
Swallowed(thrown) == "none"

\* A cache or pub/sub call of handleSuccessfulBid throws (cacheHighestBid,
\* cacheAuction or publishBidUpdate, which come first): the catch block takes
\* the error and none of the publications that follow is made.
HandleSuccessfulBidFails(m) ==
    /\ pc[m] = "post"
    /\ disturbances < MaxDisturbances
    /\ disturbances' = disturbances + 1
    /\ error' = [error EXCEPT ![m] = Swallowed("post-processing error")]
    /\ pc' = [pc EXCEPT ![m] = "release"]
    /\ UNCHANGED <<store, locks, clock, envelope, lockAcquired, auction, now, published>>
    /\ UNCHANGED <<gateway, request>>

\* channel.nack(msg, false, true): a message whose handler threw goes back to
\* the queue.
SettleWithRequeue(thrown) == IF thrown = "none" THEN "acked" ELSE "unsent"

\* The callback of channel.consume: channel.ack(msg) after the handler
\* returned, channel.nack(msg, false, false) in the catch block.
Settle(thrown) == IF thrown = "none" THEN "acked" ELSE "nacked"

\* finally: releaseLock(lockKey); then the consumer acks the message when the
\* handler returned and nacks it without requeue when it threw. The locals of
\* the invocation are gone once it has ended.
ReleaseLock(m) ==
    /\ pc[m] = "release"
    /\ locks' = LocksAfterRelease(envelope[m].auctionId)
    /\ pc' = [pc EXCEPT ![m] = Settle(error[m])]
    /\ lockAcquired' = [lockAcquired EXCEPT ![m] = FALSE]
    /\ auction' = [auction EXCEPT ![m] = NoAuction]
    /\ now' = [now EXCEPT ![m] = 0]
    /\ error' = [error EXCEPT ![m] = "none"]
    /\ UNCHANGED <<store, clock, envelope, published, disturbances>>
    /\ UNCHANGED <<gateway, request>>

\* ------------------------------------------------------- the environment
Tick ==
    /\ clock < MaxClock
    /\ clock' = clock + 1
    /\ UNCHANGED <<store, locks, envelope, pc, locals, published, disturbances>>
    /\ UNCHANGED <<gateway, request>>

\* AuctionsService.endAuction(id, winnerId?)
EndAuction(a, w) ==
    /\ a \in DOMAIN auctions
    /\ auctions[a].status = "ACTIVE"
    /\ auctions' = [auctions EXCEPT
                      ![a].status = "ENDED",
                      ![a].winnerId = IF w # NoUser THEN w ELSE @]
    /\ UNCHANGED <<users, bids, locks, clock, envelope, pc, locals, published, disturbances>>
    /\ UNCHANGED <<gateway, request>>

\* AuctionsService.remove(id)
RemoveAuction(a) ==
    /\ a \in DOMAIN auctions
    /\ auctions[a].status # "ACTIVE"
    /\ disturbances < MaxDisturbances
    /\ disturbances' = disturbances + 1
    /\ auctions' = [x \in DOMAIN auctions \ {a} |-> auctions[x]]
    /\ UNCHANGED <<users, bids, locks, clock, envelope, pc, locals, published>>
    /\ UNCHANGED <<gateway, request>>

\* UsersService.remove(id)
RemoveUser(u) ==
    /\ u \in users
    /\ disturbances < MaxDisturbances
    /\ disturbances' = disturbances + 1
    /\ users' = users \ {u}
    /\ UNCHANGED <<auctions, bids, locks, clock, envelope, pc, locals, published>>
    /\ UNCHANGED <<gateway, request>>

\* ------------------------------------------------ the admission controller
\* const ipBlocked = await this.redisService.exists(ipBlockKey)
Blocked(flags, k) == flags[k] > 0

\* const currentIPConnections = ipConnections ? parseInt(ipConnections, 10) : 0
CurrentConnections(k) == connCount[k].value

\* The comparison with > in the place of >=.
OverCap(current, cap) == current > cap

\* if (currentIPConnections >= config.maxConnectionsPerIP)
AtCap(current, cap) == current >= cap

\* checkConnectionLimit(clientIP, userId?) when every cache call answers: the
\* result, and the block flags as the call leaves them. u = NoUser is the call
\* without a userId.
CheckConnectionLimit(ip, u) ==
    IF Blocked(blockFlag, ip)
    THEN [allowed |-> FALSE, reason |-> "IP temporarily blocked", retryAfter |-> blockFlag[ip],
          countsRead |-> FALSE, flags |-> blockFlag]
    ELSE IF u # NoUser /\ Blocked(blockFlag, u)
    THEN [allowed |-> FALSE, reason |-> "User temporarily blocked", retryAfter |-> blockFlag[u],
          countsRead |-> FALSE, flags |-> blockFlag]
    ELSE IF AtCap(CurrentConnections(ip), MaxConnectionsPerIP)
    THEN [allowed |-> FALSE, reason |-> "Too many connections from this IP address",
          retryAfter |-> BlockSeconds, countsRead |-> TRUE,
          flags |-> [blockFlag EXCEPT ![ip] = BlockSeconds]]
    ELSE IF u # NoUser /\ AtCap(CurrentConnections(u), MaxConnectionsPerUser)
    THEN [allowed |-> FALSE, reason |-> "Too many connections for this user",
          retryAfter |-> BlockSeconds, countsRead |-> TRUE,
          flags |-> [blockFlag EXCEPT ![u] = BlockSeconds]]
    ELSE [allowed |-> TRUE, reason |-> "none", retryAfter |-> 0, countsRead |-> TRUE,
          flags |-> blockFlag]

\* The catch block returning allowed: false.
FailClosed ==
    [allowed |-> FALSE, reason |-> "none", retryAfter |-> 0, countsRead |-> FALSE,
     flags |-> blockFlag]

\* catch (error) { return { allowed: true } }: a cache call of the check threw.
\* Every write of the check is its last cache call, so nothing was written.
FailOpen ==
    [allowed |-> TRUE, reason |-> "none", retryAfter |-> 0, countsRead |-> FALSE,
     flags |-> blockFlag]

\* The result of a check in which the cache answers (answers = TRUE) or throws.
LimitCheck(ip, u, answers) == IF answers THEN CheckConnectionLimit(ip, u) ELSE FailOpen

\* sadd, scard, set(count, windowMs / 1000), expire(set, windowMs / 1000)
TrackKey(sets, k, s) ==
    [sets EXCEPT ![k] = [members |-> sets[k].members \cup {s}, ttl |-> WindowSeconds]]

CountOfSet(sets, k) == [value |-> Cardinality(sets[k].members), ttl |-> WindowSeconds]

\* srem, scard, then set(count) without a ttl, or del(count) and del(set).
UntrackKey(sets, k, s) ==
    LET left == sets[k].members \ {s} IN
    IF left = {} THEN [sets EXCEPT ![k] = NoSet]
    ELSE [sets EXCEPT ![k].members = left]

CountAfterUntrack(sets, k) ==
    IF sets[k].members = {} THEN NoCount
    ELSE [value |-> Cardinality(sets[k].members), ttl |-> Forever]

\* The seconds a key has left once WindowSeconds more have passed; 0: expired.
Age(ttl) ==
    IF ttl = Forever THEN Forever
    ELSE IF ttl > WindowSeconds THEN ttl - WindowSeconds ELSE 0

\* WindowSeconds pass, in which no handshake is under way (a handshake takes
\* milliseconds): every key with a ttl ages, and the expired ones are gone.
Lapse ==
    /\ \A s \in Sockets : sockets[s].pc \notin {"authenticate", "track"}
    /\ blockFlag' = [k \in Keys |-> Age(blockFlag[k])]
    /\ connCount' = [k \in Keys |->
                       IF Age(connCount[k].ttl) = 0 THEN NoCount
                       ELSE [connCount[k] EXCEPT !.ttl = Age(@)]]
    /\ socketSet' = [k \in Keys |->
                       IF Age(socketSet[k].ttl) = 0 THEN NoSet
                       ELSE [socketSet[k] EXCEPT !.ttl = Age(@)]]
    /\ socketInfo' = [s \in Sockets |->
                       IF Age(socketInfo[s].ttl) = 0 THEN NoInfo
                       ELSE [socketInfo[s] EXCEPT !.ttl = Age(@)]]
    /\ cache' # cache
    /\ UNCHANGED <<pipeline, rooms, channel, queue, sockets, emitted, userSockets>>

\* ----------------------------------------------------------- the gateway
\* The user a handshake's token verifies for, NoUser when the token is missing
\* or invalid.
Tokens == Users \cup {NoUser}

\* The sockets that are connected when a run of the gateway starts, and their
\* users: u1, u2, u1, ...
ResidentSockets == 1..Residents
ResidentUser(s) == IF s % 2 = 1 THEN "u1" ELSE "u2"
ResidentsOf(k) == {s \in ResidentSockets : k \in Addresses \/ ResidentUser(s) = k}

\* The gateway after the handshakes of the resident sockets, one after another
\* within one tracking window: each went through Handshake, Authenticate and
\* Track.
InitGateway ==
    /\ auctions = [a \in Auctions |-> NewAuction]
    /\ users = Users
    /\ bids = {}
    /\ locks = {}
    /\ clock = StartTime
    /\ envelope = [m \in Msgs |-> [auctionId |-> "a1", userId |-> "u1", bidAmount |-> 0]]
    /\ pc = [m \in Msgs |-> "unsent"]
    /\ lockAcquired = [m \in Msgs |-> FALSE]
    /\ auction = [m \in Msgs |-> NoAuction]
    /\ now = [m \in Msgs |-> 0]
    /\ error = [m \in Msgs |-> "none"]
    /\ notifications = {}
    /\ audit = {}
    /\ disturbances = 0
    /\ request = [h \in HttpBids |-> NoRequest]
    /\ channel = TRUE
    /\ queue = <<>>
    /\ sockets = [s \in Sockets |->
                    IF s \in ResidentSockets
                    THEN [NewSocket EXCEPT !.pc = "open", !.token = ResidentUser(s),
                                           !.user = ResidentUser(s),
                                           !.limitCheck = "allowed",
                                           !.userLimitCheck = "allowed"]
                    ELSE NewSocket]
    /\ emitted = [s \in Sockets |->
                    IF s \in ResidentSockets THEN <<"connected">> ELSE <<>>]
    /\ userSockets = [u \in Users |-> ResidentsOf(u)]
    /\ blockFlag = [k \in Keys |-> 0]
    /\ connCount = [k \in Keys |->
                      IF ResidentsOf(k) = {} THEN NoCount
                      ELSE [value |-> Cardinality(ResidentsOf(k)), ttl |-> WindowSeconds]]
    /\ socketSet = [k \in Keys |->
                      IF ResidentsOf(k) = {} THEN NoSet
                      ELSE [members |-> ResidentsOf(k), ttl |-> WindowSeconds]]
    /\ socketInfo = [s \in Sockets |->
                       IF s \in ResidentSockets
                       THEN [clientIP |-> "x", userId |-> ResidentUser(s),
                             ttl |-> WindowSeconds]
                       ELSE NoInfo]
    /\ NoRooms

\* socket.disconnect(true); return: the socket is gone, and so is what it
\* carried; that a cache call of its checks threw stays on record.
Closed(sock) ==
    [NewSocket EXCEPT !.pc = "closed", !.clientIP = sock.clientIP,
                      !.checkError = sock.checkError]

\* limitCheck.allowed, userLimitCheck.allowed
Verdict(check) == IF check.allowed THEN "allowed" ELSE "denied"

\* The handshakes between their first admission check and their end.
UnderWay == {s \in Sockets : sockets[s].pc \in {"authenticate", "track"}}

\* The cache calls that have thrown so far, one per socket at most.
CacheErrors == Cardinality({s \in Sockets : sockets[s].checkError \/ sockets[s].trackError})

\* The cache answers the calls of one step, or it throws, which it does while
\* the run's budget of cache errors lasts.
MayAnswer(answers) == answers \/ CacheErrors < MaxCacheErrors

\* handleConnection up to the result of its first await: the admission check
\* with the address only. tok is the user the handshake's token verifies for,
\* NoUser when the token is missing or invalid.
Handshake(s, tok, answers) ==
    /\ sockets[s].pc = "idle"
    /\ \A k \in 1..(s - 1) : sockets[k].pc # "idle"
    /\ Cardinality(UnderWay) < MaxHandshakes
    /\ MayAnswer(answers)
    /\ LET limitCheck == LimitCheck(sockets[s].clientIP, NoUser, answers)
           sock == [sockets[s] EXCEPT !.token = tok, !.checkError = ~answers,
                                      !.limitCheck = Verdict(limitCheck)]
       IN  /\ blockFlag' = limitCheck.flags
           /\ sockets' = [sockets EXCEPT ![s] =
                            IF limitCheck.allowed
                            THEN [sock EXCEPT !.pc = "authenticate"]
                            ELSE Closed(sock)]
    /\ UNCHANGED <<pipeline, rooms, channel, queue, emitted, userSockets, connCount, socketSet,
                   socketInfo>>

\* The token check and the second admission check, with the user of the token;
\* when it passes socket.data.user is set.
Authenticate(s, answers) ==
    /\ sockets[s].pc = "authenticate"
    /\ MayAnswer(answers)
    /\ LET sock == sockets[s] IN
       IF sock.token = NoUser
       THEN /\ answers
            /\ sockets' = [sockets EXCEPT ![s] = Closed(sock)]
            /\ UNCHANGED blockFlag
       ELSE LET userLimitCheck == LimitCheck(sock.clientIP, sock.token, answers)
                checked == [sock EXCEPT !.checkError = @ \/ ~answers,
                                        !.userLimitCheck = Verdict(userLimitCheck)]
            IN
            /\ blockFlag' = userLimitCheck.flags
            /\ sockets' = [sockets EXCEPT ![s] =
                             IF userLimitCheck.allowed
                             THEN [checked EXCEPT !.pc = "track", !.user = sock.token]
                             ELSE Closed(checked)]
    /\ UNCHANGED <<pipeline, rooms, channel, queue, emitted, userSockets, connCount, socketSet,
                   socketInfo>>

\* trackConnection(clientIP, socket.id, userId), which swallows the error of a
\* cache call that throws, then userSockets and the connected acknowledgement.
Track(s, answers) ==
    /\ sockets[s].pc = "track"
    /\ MayAnswer(answers)
    /\ LET sock == sockets[s]
           byIP == TrackKey(socketSet, sock.clientIP, s)
           both == TrackKey(byIP, sock.user, s)
       IN  /\ IF answers
              THEN /\ socketSet' = both
                   /\ connCount' = [connCount EXCEPT
                                      ![sock.clientIP] = CountOfSet(both, sock.clientIP),
                                      ![sock.user] = CountOfSet(both, sock.user)]
                   /\ socketInfo' = [socketInfo EXCEPT ![s] =
                                       [clientIP |-> sock.clientIP, userId |-> sock.user,
                                        ttl |-> WindowSeconds]]
              ELSE UNCHANGED <<socketSet, connCount, socketInfo>>
           /\ userSockets' = [userSockets EXCEPT ![sock.user] = @ \cup {s}]
           /\ emitted' = IF sock.gone THEN emitted
                         ELSE [emitted EXCEPT ![s] = Append(@, "connected")]
           /\ sockets' = [sockets EXCEPT ![s] =
                            [sock EXCEPT !.pc = IF sock.gone THEN "left" ELSE "open",
                                         !.trackError = ~answers]]
    /\ UNCHANGED <<pipeline, rooms, channel, queue, blockFlag>>

\* The client goes away while handleConnection awaits an admission check or
\* trackConnection: handleDisconnect runs at once, finds no descriptor to
\* untrack and takes the socket out of userSockets when socket.data.user is
\* already set; handleConnection goes on afterwards, and what it emits to the
\* socket reaches nobody.
DisconnectDuringHandshake(s) ==
    /\ sockets[s].pc \in {"authenticate", "track"}
    /\ ~sockets[s].gone
    /\ Cardinality({k \in Sockets : sockets[k].pc = "left" \/ sockets[k].gone})
          < MaxDisconnects
    /\ socketInfo[s].ttl = 0
    /\ userSockets' = IF sockets[s].user # NoUser
                      THEN [userSockets EXCEPT ![sockets[s].user] = @ \ {s}]
                      ELSE userSockets
    /\ sockets' = [sockets EXCEPT ![s].gone = TRUE]
    /\ UNCHANGED <<pipeline, rooms, channel, queue, emitted, cache>>

\* handleDisconnect of a connected socket: untrackConnection(socket.id), which
\* does nothing when the descriptor is gone, then userSockets.
Disconnect(s) ==
    /\ sockets[s].pc = "open"
    /\ Cardinality({k \in Sockets : sockets[k].pc = "left"}) < MaxDisconnects
    /\ LET sock == sockets[s]
           info == socketInfo[s]
           byIP == UntrackKey(socketSet, info.clientIP, s)
           both == UntrackKey(byIP, info.userId, s)
       IN  /\ IF info.ttl = 0
              THEN UNCHANGED <<socketSet, connCount, socketInfo>>
              ELSE /\ socketSet' = both
                   /\ connCount' = [connCount EXCEPT
                                      ![info.clientIP] = CountAfterUntrack(both, info.clientIP),
                                      ![info.userId] = CountAfterUntrack(both, info.userId)]
                   /\ socketInfo' = [socketInfo EXCEPT ![s] = NoInfo]
           /\ userSockets' = [userSockets EXCEPT ![sock.user] = @ \ {s}]
           /\ sockets' = [sockets EXCEPT ![s] = [Closed(sock) EXCEPT !.pc = "left", !.checkError = FALSE]]
    /\ room' = [a \in Auctions |-> room[a] \ {s}]
    /\ subscribedAuctions' = [subscribedAuctions EXCEPT ![s] = {}]
    /\ UNCHANGED <<pipeline, subscribers, bus, broadcast, joins, channel, queue, emitted,
                   blockFlag>>

\* ---------------------------------------------------------- place-bid
\* The socket whose handshake is still under way when bids are placed: it is
\* connected, and socket.data.user is not set yet.
Joining == Residents + 1

\* The userId a place-bid payload may carry: none, or any user.
PayloadUsers == Users \cup {NoUser}

\* The gateway with the resident sockets connected and the handshake of one
\* more socket waiting for its token check; the broker was reachable when the
\* adapter started, or it was not.
InitPlaceBid ==
    /\ auctions = [a \in Auctions |-> NewAuction]
    /\ users = Users
    /\ bids = {}
    /\ locks = {}
    /\ clock = StartTime
    /\ envelope = [m \in Msgs |-> [auctionId |-> "a1", userId |-> "u1", bidAmount |-> 0]]
    /\ pc = [m \in Msgs |-> "unsent"]
    /\ lockAcquired = [m \in Msgs |-> FALSE]
    /\ auction = [m \in Msgs |-> NoAuction]
    /\ now = [m \in Msgs |-> 0]
    /\ error = [m \in Msgs |-> "none"]
    /\ notifications = {}
    /\ audit = {}
    /\ disturbances = 0
    /\ request = [h \in HttpBids |-> NoRequest]
    /\ channel \in BOOLEAN
    /\ queue = <<>>
    /\ sockets = [s \in Sockets |->
                    IF s \in ResidentSockets
                    THEN [NewSocket EXCEPT !.pc = "open", !.token = ResidentUser(s),
                                           !.user = ResidentUser(s),
                                           !.limitCheck = "allowed",
                                           !.userLimitCheck = "allowed"]
                    ELSE IF s = Joining
                    THEN [NewSocket EXCEPT !.pc = "authenticate", !.token = "u2",
                                           !.limitCheck = "allowed"]
                    ELSE NewSocket]
    /\ emitted = [s \in Sockets |->
                    IF s \in ResidentSockets THEN <<"connected">> ELSE <<>>]
    /\ userSockets = [u \in Users |-> ResidentsOf(u)]
    /\ blockFlag = [k \in Keys |-> 0]
    /\ connCount = [k \in Keys |->
                      IF ResidentsOf(k) = {} THEN NoCount
                      ELSE [value |-> Cardinality(ResidentsOf(k)), ttl |-> WindowSeconds]]
    /\ socketSet = [k \in Keys |->
                      IF ResidentsOf(k) = {} THEN NoSet
                      ELSE [members |-> ResidentsOf(k), ttl |-> WindowSeconds]]
    /\ socketInfo = [s \in Sockets |->
                       IF s \in ResidentSockets
                       THEN [clientIP |-> "x", userId |-> ResidentUser(s),
                             ttl |-> WindowSeconds]
                       ELSE NoInfo]
    /\ NoRooms

\* The envelope's user, were it read from the payload when the payload has one.
PayloadUser(sock, claimed) == IF claimed # NoUser THEN claimed ELSE sock.user

\* userId: socket.data.user._id
EnvelopeUser(sock, claimed) == sock.user

\* The publication that does not look at the channel.
PublishUnguarded(q, e) == Append(q, e)

\* publishBidProcessing -> publishToExchange: without a channel the message is
\* skipped with a warning, and nothing is thrown either way.
PublishBidProcessing(q, e) == IF channel THEN Append(q, e) ELSE q

\* The place-bid intents the sockets have sent.
Placed ==
    Cardinality({p \in Sockets \X (1..MaxEvents) : sockets[p[1]].sent >= p[2]})

\* handlePlaceBid of a connected socket, with the payload's auction, amount and
\* (ignored) userId. Reading socket.data.user._id throws while data.user is
\* not set, and the catch block emits error; otherwise the envelope is
\* published and bidReceived is emitted. The token is not looked at.
HandlePlaceBid(s, a, amt, claimed) ==
    /\ sockets[s].pc \in {"authenticate", "track", "open"}
    /\ Placed < MaxEvents
    /\ LET sock == sockets[s]
           e == [auctionId |-> a, userId |-> EnvelopeUser(sock, claimed), bidAmount |-> amt]
       IN  /\ IF sock.user = NoUser
              THEN /\ emitted' = [emitted EXCEPT ![s] = Append(@, "error")]
                   /\ UNCHANGED queue
              ELSE /\ queue' = PublishBidProcessing(queue, e)
                   /\ emitted' = [emitted EXCEPT ![s] = Append(@, "bidReceived")]
           /\ sockets' = [sockets EXCEPT ![s].sent = @ + 1]
    /\ UNCHANGED <<pipeline, rooms, channel, userSockets, cache>>

\* The exp of the token a connected socket presented at its handshake passes;
\* nothing in the gateway runs when it does.
TokenExpires(s) ==
    /\ sockets[s].pc = "open"
    /\ ~sockets[s].expired
    /\ Cardinality({k \in Sockets : sockets[k].expired}) < MaxExpiries
    /\ sockets' = [sockets EXCEPT ![s].expired = TRUE]
    /\ UNCHANGED <<pipeline, rooms, channel, queue, emitted, userSockets, cache>>

\* The broker delivers the oldest published envelope to the consumer.
Deliver(m) ==
    /\ queue # <<>>
    /\ Consume(m, Head(queue).auctionId, Head(queue).userId, Head(queue).bidAmount)
    /\ queue' = Tail(queue)
    /\ UNCHANGED <<channel, sockets, emitted, userSockets, cache, rooms, request>>

\* ------------------------------------------------------------ POST /bids
\* bidModel.findOne({auctionId, isWinning: true}): the records it may return.
WinningBids(a) == {b \in bids : b.auctionId = a /\ b.isWinning}

\* The validation of BidsService.placeBid before it looks for the winning
\* bid: findOne throws when there is no such auction, then the status, the
\* window at now = new Date(), and bidAmount <= auction.currentHighestBid.
PlaceBidValid(a, amt) ==
    /\ a \in DOMAIN auctions
    /\ auctions[a].status = "ACTIVE"
    /\ ~(clock < auctions[a].startTime \/ clock > auctions[a].endTime)
    /\ ~(amt <= auctions[a].currentHighestBid)

\* BidsService.placeBid accepts the request: it is valid and the winning bid
\* that findOne returns, if any, is not of the same user.
PlaceBidAccepts(a, u, amt) ==
    /\ PlaceBidValid(a, amt)
    /\ \/ WinningBids(a) = {}
       \/ \E cur \in WinningBids(a) : cur.userId # u

\* processBid accepts an envelope delivered now: the auction exists, is
\* ACTIVE, now is inside the window, the amount is at least the minimum, and
\* the user exists.
ProcessBidAccepts(a, u, amt) ==
    /\ a \in DOMAIN auctions
    /\ auctions[a].status = "ACTIVE"
    /\ ~NotStarted(clock, auctions[a])
    /\ ~HasEnded(clock, auctions[a])
    /\ ~BelowMinimum(amt, auctions[a])
    /\ u \in users

\* updateOne({_id: currentHighestBid._id}, {isWinning: false}): the status of
\* the record stays as it is. found holds the _id of the record that findOne
\* returned, or nothing.
NotWinning(b, found) == IF b.id \in found THEN [b EXCEPT !.isWinning = FALSE] ELSE b

\* new this.bidModel({userId, auctionId, bidAmount, isWinning: true,
\*                    status: ACCEPTED, timestamp: now})
HttpBid(h, r) ==
    [id |-> h, userId |-> r.userId, auctionId |-> r.auctionId, bidAmount |-> r.bidAmount,
     timestamp |-> r.now, isWinning |-> TRUE, status |-> "ACCEPTED"]

\* BidsService.placeBid({auctionId, bidAmount, userId}) up to the start of its
\* transaction: the auction is read and validated at now = new Date(), and the
\* winning bid is looked up. A request that is rejected throws here, before
\* any write, and leaves nothing behind.
PlaceBidValidate(h, a, u, amt) ==
    /\ request[h].pc = "idle"
    /\ \A k \in HttpBids : k < h => request[k].pc # "idle"
    /\ PlaceBidValid(a, amt)
    /\ \E found \in (IF WinningBids(a) = {} THEN {{}}
                     ELSE {{cur.id} : cur \in {b \in WinningBids(a) : b.userId # u}}) :
         request' = [request EXCEPT ![h] =
                       [pc |-> "transaction", auctionId |-> a, userId |-> u,
                        bidAmount |-> amt, now |-> clock, found |-> found]]
    /\ UNCHANGED <<store, locks, clock, envelope, pc, locals, published, disturbances>>
    /\ UNCHANGED gateway

\* session.withTransaction: the previous winner found is marked not winning,
\* the new record is saved, and AuctionsService.updateHighestBid sets
\* currentHighestBid and winnerId and increments bidCount, whatever the
\* auction holds by now.
PlaceBidTransaction(h) ==
    /\ request[h].pc = "transaction"
    /\ LET r == request[h] IN
         /\ bids' = {NotWinning(b, r.found) : b \in bids} \cup {HttpBid(h, r)}
         /\ auctions' = [auctions EXCEPT ![r.auctionId].currentHighestBid = r.bidAmount,
                                         ![r.auctionId].winnerId = r.userId,
                                         ![r.auctionId].bidCount = IncBidCount(@)]
    /\ request' = [request EXCEPT ![h] = [NoRequest EXCEPT !.pc = "done"]]
    /\ UNCHANGED <<users, locks, clock, envelope, pc, locals, published, disturbances>>
    /\ UNCHANGED gateway

\* --------------------------------------------------------------- rooms
\* The gateway with the resident sockets connected and no socket in a room.
InitRooms ==
    /\ auctions = [a \in Auctions |-> NewAuction]
    /\ users = Users
    /\ bids = {}
    /\ locks = {}
    /\ clock = StartTime
    /\ envelope = [m \in Msgs |-> [auctionId |-> "a1", userId |-> "u1", bidAmount |-> 0]]
    /\ pc = [m \in Msgs |-> "unsent"]
    /\ lockAcquired = [m \in Msgs |-> FALSE]
    /\ auction = [m \in Msgs |-> NoAuction]
    /\ now = [m \in Msgs |-> 0]
    /\ error = [m \in Msgs |-> "none"]
    /\ notifications = {}
    /\ audit = {}
    /\ disturbances = 0
    /\ request = [h \in HttpBids |-> NoRequest]
    /\ channel = TRUE
    /\ queue = <<>>
    /\ sockets = [s \in Sockets |->
                    IF s \in ResidentSockets
                    THEN [NewSocket EXCEPT !.pc = "open", !.token = ResidentUser(s),
                                           !.user = ResidentUser(s),
                                           !.limitCheck = "allowed",
                                           !.userLimitCheck = "allowed"]
                    ELSE NewSocket]
    /\ emitted = [s \in Sockets |->
                    IF s \in ResidentSockets THEN <<"connected">> ELSE <<>>]
    /\ userSockets = [u \in Users |-> ResidentsOf(u)]
    /\ blockFlag = [k \in Keys |-> 0]
    /\ connCount = [k \in Keys |->
                      IF ResidentsOf(k) = {} THEN NoCount
                      ELSE [value |-> Cardinality(ResidentsOf(k)), ttl |-> WindowSeconds]]
    /\ socketSet = [k \in Keys |->
                      IF ResidentsOf(k) = {} THEN NoSet
                      ELSE [members |-> ResidentsOf(k), ttl |-> WindowSeconds]]
    /\ socketInfo = [s \in Sockets |->
                       IF s \in ResidentSockets
                       THEN [clientIP |-> "x", userId |-> ResidentUser(s),
                             ttl |-> WindowSeconds]
                       ELSE NoInfo]
    /\ NoRooms

\* The join-auction intents of socket s that were answered with auctionUpdate.
Joins(s) ==
    Cardinality({i \in 1..Len(broadcast[s]) : broadcast[s][i].event = "auctionUpdate"})

\* socket.to(room).emit(event): to every socket of the room but s.
EmitToOthers(s, a, members, event) ==
    [k \in Sockets |->
        IF k \in members \ {s} THEN Append(emitted[k], event) ELSE emitted[k]]

\* handleJoinAuction of a connected socket for an auction that exists, up to
\* the answer of auctionsService.findOne: the handler holds the auction as it
\* was read.
HandleJoinAuction(s, a) ==
    /\ sockets[s].pc = "open"
    /\ a \in DOMAIN auctions
    /\ joins[s].pc = "idle"
    /\ Joins(s) < MaxJoins
    /\ joins' = [joins EXCEPT ![s] = [pc |-> "join", auctionId |-> a,
                                      auction |-> auctions[a]]]
    /\ UNCHANGED <<pipeline, channel, queue, sockets, emitted, userSockets, cache, room,
                   subscribedAuctions, subscribers, bus, broadcast>>

\* handleJoinAuction goes on: socket.join(room), and unless this socket has
\* subscribed before, the handlers of the auction's two channels are set and
\* the handler awaits the subscriptions.
JoinRoom(s) ==
    /\ joins[s].pc = "join"
    /\ LET a == joins[s].auctionId IN
         /\ room' = [room EXCEPT ![a] = @ \cup {s}]
         /\ subscribers' =
               IF a \in subscribedAuctions[s] THEN subscribers
               ELSE subscribers \cup {BidChannel(a), EventsChannel(a)}
    /\ joins' = [joins EXCEPT ![s].pc = "emit"]
    /\ UNCHANGED <<pipeline, channel, queue, sockets, emitted, userSockets, cache,
                   subscribedAuctions, bus, broadcast>>

\* socket.emit(AUCTION_UPDATE, {auctionId, currentHighestBid, bidCount, status})
\* of the auction as handleJoinAuction read it.
AuctionUpdateEvent(a, read) ==
    [event |-> "auctionUpdate", auctionId |-> a, bidAmount |-> read.currentHighestBid,
     msg |-> 0]

\* handleJoinAuction ends: the auction is added to socket.data.subscribedAuctions,
\* the socket gets auctionUpdate with the auction as it was read, and the
\* others in the room userJoined when the socket has an identity.
EmitAuctionUpdate(s) ==
    /\ joins[s].pc = "emit"
    /\ LET a == joins[s].auctionId IN
         /\ subscribedAuctions' = [subscribedAuctions EXCEPT ![s] = @ \cup {a}]
         /\ broadcast' = [broadcast EXCEPT
                            ![s] = Append(@, AuctionUpdateEvent(a, joins[s].auction))]
         /\ emitted' = IF sockets[s].user # NoUser
                       THEN EmitToOthers(s, a, room[a], "userJoined")
                       ELSE emitted
    /\ joins' = [joins EXCEPT ![s] = NoJoin]
    /\ UNCHANGED <<pipeline, channel, queue, sockets, userSockets, cache, room,
                   subscribers, bus>>

\* handleLeaveAuction: the socket leaves the room and the others get userLeft.
HandleLeaveAuction(s, a) ==
    /\ sockets[s].pc = "open"
    /\ s \in room[a]
    /\ room' = [room EXCEPT ![a] = @ \ {s}]
    /\ emitted' = EmitToOthers(s, a, room[a], "userLeft")
    /\ UNCHANGED <<pipeline, channel, queue, sockets, userSockets, cache,
                   subscribedAuctions, subscribers, bus, broadcast, joins>>

\* publishAuctionEvent(auctionId, 'AUCTION_ENDED', {auctionId, winningBid,
\* winnerId}) for an ended auction, by whoever calls it.
AuctionEnded(a) ==
    [channel |-> EventsChannel(a), type |-> "AUCTION_ENDED", auctionId |-> a,
     userId |-> auctions[a].winnerId, bidAmount |-> auctions[a].currentHighestBid,
     msg |-> 0]

AuctionEventPublished(a) ==
    /\ a \in DOMAIN auctions
    /\ auctions[a].status = "ENDED"
    /\ EventsChannel(a) \in subscribers
    /\ \A i \in 1..Len(bus) : bus[i].type # "AUCTION_ENDED"
    /\ \A s \in Sockets : \A i \in 1..Len(broadcast[s]) : broadcast[s][i].event # "auctionEnd"
    /\ bus' = Publish(bus, AuctionEnded(a))
    /\ UNCHANGED <<pipeline, gatewayButBus>>

\* The handler of the auction's bid channel: server.to(room).emit(BID_UPDATE).
BidUpdateEvent(message) ==
    [event |-> "bidUpdate", auctionId |-> message.auctionId,
     bidAmount |-> message.bidAmount, msg |-> message.msg]

\* The handler of the auction's events channel, for AUCTION_ENDED:
\* server.to(room).emit(AUCTION_END). It is the only code that runs on the
\* event: handleAuctionEnd, which would also emit auctionWon to the winner's
\* sockets, has no caller and is subscribed to no channel.
AuctionEndEvent(message) ==
    [event |-> "auctionEnd", auctionId |-> message.auctionId,
     bidAmount |-> message.bidAmount, msg |-> message.msg]

\* One handler per socket that subscribed, each emitting to the room.
EmitPerSubscription(a, event) ==
    [s \in Sockets |->
        IF s \in room[a]
        THEN broadcast[s] \o
             [i \in 1..Cardinality({k \in Sockets : a \in subscribedAuctions[k]}) |-> event]
        ELSE broadcast[s]]

\* server.to(room).emit(event): once to every socket in the room.
EmitToRoom(a, event) ==
    [s \in Sockets |->
        IF s \in room[a] THEN Append(broadcast[s], event) ELSE broadcast[s]]

\* subscriberClient.on('message'): the oldest message received is handed to
\* the one handler of its channel, which emits to the room as it is now.
DispatchMessage ==
    /\ bus # <<>>
    /\ bus' = Tail(bus)
    /\ LET message == Head(bus) IN
         broadcast' =
            IF message.channel \notin subscribers THEN broadcast
            ELSE IF message.channel = BidChannel(message.auctionId)
                 THEN EmitToRoom(message.auctionId, BidUpdateEvent(message))
            ELSE IF message.type = "AUCTION_ENDED"
                 THEN EmitToRoom(message.auctionId, AuctionEndEvent(message))
            ELSE broadcast
    /\ UNCHANGED <<pipeline, channel, queue, sockets, emitted, userSockets, cache, room,
                   subscribedAuctions, subscribers, joins>>

\* ------------------------------------------------------ the specifications
\* One step of a processBid invocation that has acquired or failed to acquire
\* the lock.
Process(m) ==
    \/ FindAuction(m)
    \/ FindUser(m)
    \/ Save(m)
    \/ UpdateMany(m)
    \/ UpdateAuction(m)
    \/ HandleSuccessfulBid(m)
    \/ ReleaseLock(m)

\* The pipeline with a burst of up to MaxMsgs envelopes, the clock and the end
\* of the auction; no lock expires and the store does not fail.
NextBurst ==
    \/ \E m \in Msgs, a \in Auctions, amt \in BidAmounts :
         \E u \in Senders(m) : ConsumeEnvelope(m, a, u, amt)
    \/ \E m \in Msgs : Process(m)
    \/ \E a \in Auctions, w \in Users \cup {NoUser} : EndAuction(a, w)
    \/ Tick

SpecBurst == Init /\ [][NextBurst]_vars

\* The pipeline with one envelope fewer, and up to MaxDisturbances of: an
\* expired lock, a store operation that throws, a removed auction or user.
Next ==
    \/ \E m \in 1..(MaxMsgs - 1), a \in Auctions, amt \in BidAmounts :
         \E u \in Senders(m) : ConsumeEnvelope(m, a, u, amt)
    \/ \E m \in Msgs : Process(m)
    \/ \E m \in Msgs : StoreFails(m)
    \/ \E m \in Msgs : HandleSuccessfulBidFails(m)
    \/ \E a \in Auctions : LockExpire(a)
    \/ \E a \in Auctions, w \in Users \cup {NoUser} : EndAuction(a, w)
    \/ \E a \in Auctions : RemoveAuction(a)
    \/ \E u \in Users : RemoveUser(u)
    \/ Tick

Spec == Init /\ [][Next]_vars

\* The gateway's handshakes from one address, with a cache that may throw and
\* keys that expire; the resident sockets are connected.
NextGateway ==
    \/ \E s \in Sockets, answers \in BOOLEAN :
         \E tok \in Tokens : Handshake(s, tok, answers)
    \/ \E s \in Sockets, answers \in BOOLEAN : Authenticate(s, answers)
    \/ \E s \in Sockets, answers \in BOOLEAN : Track(s, answers)
    \/ \E s \in Sockets : Disconnect(s)
    \/ Lapse

SpecGateway == InitGateway /\ [][NextGateway]_vars

\* Handshakes and disconnections that overlap: a socket may go away before
\* its handleConnection has finished. The cache answers every call and no key
\* expires.
NextHandshake ==
    \/ \E s \in Sockets, tok \in Tokens : Handshake(s, tok, TRUE)
    \/ \E s \in Sockets : Authenticate(s, TRUE)
    \/ \E s \in Sockets : Track(s, TRUE)
    \/ \E s \in Sockets : Disconnect(s)
    \/ \E s \in Sockets : DisconnectDuringHandshake(s)

SpecHandshake == InitGateway /\ [][NextHandshake]_vars

\* Bids placed on connected sockets, delivered to the processor and processed,
\* while tokens expire, the clock runs and the auction may be ended.
NextPlaceBid ==
    \/ \E s \in Sockets, a \in Auctions, amt \in BidAmounts :
         \E claimed \in PayloadUsers : HandlePlaceBid(s, a, amt, claimed)
    \/ \E s \in Sockets : TokenExpires(s)
    \/ \E m \in Msgs : Deliver(m)
    \/ \E m \in Msgs : Process(m)
    \/ \E a \in Auctions, w \in Users \cup {NoUser} : EndAuction(a, w)
    \/ Tick

SpecPlaceBid == InitPlaceBid /\ [][NextPlaceBid]_vars

\* Bids through POST /bids next to bids through the processor, while the
\* clock runs and the auction may be ended.
NextHttp ==
    \/ \E h \in HttpBids, a \in Auctions, u \in Users, amt \in BidAmounts :
         PlaceBidValidate(h, a, u, amt)
    \/ \E h \in HttpBids : PlaceBidTransaction(h)
    \/ \E m \in 1..MaxHttpMsgs, a \in Auctions, amt \in BidAmounts :
         \E u \in Senders(m) : ConsumeEnvelope(m, a, u, amt)
    \/ \E m \in Msgs : Process(m)
    \/ \E a \in Auctions, w \in Users \cup {NoUser} : EndAuction(a, w)
    \/ Tick

SpecHttp == Init /\ [][NextHttp]_vars

\* The amounts bid while the rooms are watched: both meet the increment.
RoomBidAmounts == {StartingBid + MinIncrement, StartingBid + 2 * MinIncrement}

\* The winner the ender names while the rooms are watched.
RoomWinners == {"u1"}

\* Sockets that join and leave the auction's room, while a bid is processed
\* and published and the ended auction's event is published.
NextRooms ==
    \/ \E s \in 1..MaxRoomSockets, a \in Auctions : HandleJoinAuction(s, a)
    \/ \E s \in Sockets : JoinRoom(s)
    \/ \E s \in Sockets : EmitAuctionUpdate(s)
    \/ \E s \in 1..MaxRoomSockets, a \in Auctions : HandleLeaveAuction(s, a)
    \/ \E a \in Auctions, amt \in RoomBidAmounts : ConsumeEnvelope(1, a, "u1", amt)
    \/ \E m \in Msgs : Process(m)
    \/ \E a \in Auctions, w \in RoomWinners : EndAuction(a, w)
    \/ \E a \in Auctions : AuctionEventPublished(a)
    \/ DispatchMessage

SpecRooms == InitRooms /\ [][NextRooms]_vars

\* One socket that joins the auction's room while bids are processed and
\* published and a lock may expire.
NextBidUpdates ==
    \/ \E a \in Auctions : HandleJoinAuction(1, a)
    \/ \E s \in Sockets : JoinRoom(s)
    \/ \E s \in Sockets : EmitAuctionUpdate(s)
    \/ \E m \in 1..(MaxMsgs - 1), a \in Auctions, amt \in RoomBidAmounts :
         \E u \in Senders(m) : ConsumeEnvelope(m, a, u, amt)
    \/ \E m \in Msgs : Process(m)
    \/ \E a \in Auctions : LockExpire(a)
    \/ DispatchMessage

SpecBidUpdates == InitRooms /\ [][NextBidUpdates]_vars

\* The auction's life: time passes its endTime while sockets are in its room
\* and an envelope is processed; endAuction is a request of a client and the
\* event's publication a call of the ender, neither is a step the server takes
\* by itself.
NextLifecycle ==
    \/ \E s \in 1..MaxRoomSockets, a \in Auctions : HandleJoinAuction(s, a)
    \/ \E s \in Sockets : JoinRoom(s)
    \/ \E s \in Sockets : EmitAuctionUpdate(s)
    \/ \E s \in 1..MaxRoomSockets, a \in Auctions : HandleLeaveAuction(s, a)
    \/ \E a \in Auctions, amt \in RoomBidAmounts : ConsumeEnvelope(1, a, "u1", amt)
    \/ \E m \in Msgs : Process(m)
    \/ \E a \in Auctions, w \in RoomWinners : EndAuction(a, w)
    \/ \E a \in Auctions : AuctionEventPublished(a)
    \/ DispatchMessage
    \/ Tick

\* What the server and time do without being asked: a consumed envelope is
\* processed to its end, a received message is dispatched, time passes.
SpecLifecycle ==
    /\ InitRooms
    /\ [][NextLifecycle]_vars
    /\ \A m \in Msgs : WF_vars(Process(m))
    /\ WF_vars(DispatchMessage)
    /\ WF_vars(Tick)

\* ------------------------------------------------------------ vocabulary
\* The messages the consumer has been handed.
Sent == {m \in Msgs : pc[m] # "unsent"}

\* The handler of m has ended and the message is settled.
Settled(m) == pc[m] \in {"acked", "nacked"}

\* m is between a successful acquireLock and its own releaseLock.
Holding(m) == lockAcquired[m]

\* The invocation of m has applied its auction update (step 8 succeeded).
Applied(m) ==
    \/ pc[m] \in {"post", "acked"}
    \/ pc[m] = "release" /\ error[m] = "none"

\* No invocation for auction a is between its insert and its auction update.
NoWriteInProgress(a) ==
    \A m \in Sent :
        envelope[m].auctionId = a => pc[m] \notin {"updateMany", "updateAuction"}

BidsOf(a) == {b \in bids : b.auctionId = a}

\* The bids of a whose invocation went on to apply the auction update.
AcceptedBids(a) == {b \in BidsOf(a) : Applied(b.id)}

\* The auction is ACTIVE and the clock has stayed inside [startTime, endTime).
OpenThroughout(a) ==
    /\ a \in DOMAIN auctions
    /\ auctions[a].status = "ACTIVE"
    /\ auctions[a].startTime <= clock
    /\ clock < auctions[a].endTime

\* ------------------------------------------------------------------ C1
\* C1: for every auction at most one processBid invocation is between a
\* successful lock acquisition and its own release of the lock.
C1_AtMostOneHolder ==
    \A a \in Auctions :
        Cardinality({m \in Msgs : Holding(m) /\ envelope[m].auctionId = a}) <= 1

\* ------------------------------------------------------------------ C2
\* C2: of two bids accepted for the same auction, the one with the earlier
\* timestamp has the strictly smaller amount.
C2_AcceptedOrderMatchesAmounts ==
    \A a \in Auctions : \A b1, b2 \in AcceptedBids(a) :
        b1.timestamp < b2.timestamp => b1.bidAmount < b2.bidAmount

\* ------------------------------------------------------------------ C3
\* C3: after every accepted bid an auction has at most one bid with
\* isWinning = true, and that bid's amount is the auction's currentHighestBid.
C3_OneWinnerAtHighestBid ==
    \A a \in DOMAIN auctions :
        (NoWriteInProgress(a) /\ AcceptedBids(a) # {}) =>
            LET winning == {b \in BidsOf(a) : b.isWinning} IN
            /\ Cardinality(winning) <= 1
            /\ \A b \in winning : b.bidAmount = auctions[a].currentHighestBid

\* ------------------------------------------------------------------ C4
\* C4: currentHighestBid never decreases and is never below startingBid.
C4_HighestBidMonotone ==
    /\ [](\A a \in DOMAIN auctions :
            auctions[a].currentHighestBid >= auctions[a].startingBid)
    /\ [][\A a \in DOMAIN auctions \cap DOMAIN auctions' :
            auctions'[a].currentHighestBid >= auctions[a].currentHighestBid]_vars

\* ------------------------------------------------------------------ C5
\* C5: the bids startingBid+100 and then startingBid+200 of two users on an
\* open auction, in flight together or not, are both accepted once both
\* messages are settled: bidCount 2, the higher amount the highest bid, the
\* higher bid winning and the lower one OUTBID.
C5_TwoRisingBids ==
    LET first == [auctionId |-> "a1", userId |-> "u1",
                  bidAmount |-> StartingBid + MinIncrement]
        second == [auctionId |-> "a1", userId |-> "u2",
                   bidAmount |-> StartingBid + 2 * MinIncrement]
    IN  ( /\ Sent = {1, 2}
          /\ envelope[1] = first /\ envelope[2] = second
          /\ Settled(1) /\ Settled(2)
          /\ OpenThroughout("a1") )
        => /\ auctions["a1"].bidCount = 2
           /\ auctions["a1"].currentHighestBid = second.bidAmount
           /\ \E b \in bids : b.id = 2 /\ b.isWinning
           /\ \E b \in bids : b.id = 1 /\ b.status = "OUTBID"

\* ------------------------------------------------------------------ C6
\* C6: of two or more bids of the same valid amount submitted together for an
\* open auction exactly one is accepted, and a BID_FAILED notification is
\* published to the user of every other one.
C6_OneOfEqualBids ==
    \A a \in Auctions :
        ( /\ Cardinality(Sent) >= 2
          /\ \A m \in Sent :
                /\ Settled(m)
                /\ envelope[m].auctionId = a
                /\ envelope[m].bidAmount = StartingBid + MinIncrement
          /\ OpenThroughout(a) )
        => /\ Cardinality({m \in Sent : pc[m] = "acked"}) = 1
           /\ \A m \in Sent :
                pc[m] = "nacked" =>
                    \E n \in notifications :
                        /\ n.type = "BID_FAILED" /\ n.msg = m
                        /\ n.userId = envelope[m].userId

\* ------------------------------------------------------------------ C7
\* The minimum of the claim, from the auction the invocation read.
Required(a) ==
    (IF a.currentHighestBid # 0 THEN a.currentHighestBid ELSE a.startingBid)
        + MinIncrement

\* The invocation of m read an ACTIVE auction at a time inside its window.
ReadOpen(m) ==
    /\ auction[m] # NoAuction
    /\ auction[m].status = "ACTIVE"
    /\ auction[m].startTime <= now[m]
    /\ now[m] < auction[m].endTime

HasRecord(m) == \E b \in bids : b.id = m

\* C7: a bid processed on an ACTIVE, in-window auction is rejected for its
\* amount exactly when the amount is below (currentHighestBid or startingBid)
\* + 100; at or above that minimum it gets its ACCEPTED record once the user
\* was found and the insert went through, below it it never gets one.
C7_AcceptedIffAtLeastMinimum ==
    \A m \in Sent : ReadOpen(m) =>
        IF envelope[m].bidAmount < Required(auction[m])
        THEN error[m] = "Bid must be at least" /\ ~HasRecord(m)
        ELSE /\ error[m] # "Bid must be at least"
             /\ pc[m] \in {"updateMany", "updateAuction", "post"} => HasRecord(m)
             /\ (pc[m] = "release" /\ error[m] = "none") => HasRecord(m)

\* A second bid of exactly the minimum above an earlier accepted bid has its
\* record.
C7_Witness ==
    \E m \in Sent :
        /\ ReadOpen(m)
        /\ auction[m].currentHighestBid > auction[m].startingBid
        /\ envelope[m].bidAmount = Required(auction[m])
        /\ HasRecord(m)
        /\ Applied(m)

\* ------------------------------------------------------------------ C8
\* C8: a bid is accepted only when the time read during processing lies in
\* [startTime, endTime); a bid of a sufficient amount read at or after endTime
\* is rejected as ended, read before startTime as not started.
C8_WindowHalfOpen ==
    \A m \in Sent :
        ( /\ auction[m] # NoAuction
          /\ auction[m].status = "ACTIVE"
          /\ envelope[m].bidAmount >= Required(auction[m]) ) =>
            /\ now[m] >= auction[m].endTime => error[m] = "Auction has ended"
            /\ now[m] < auction[m].startTime => error[m] = "Auction has not started yet"
            /\ HasRecord(m) =>
                 auction[m].startTime <= now[m] /\ now[m] < auction[m].endTime

C10_DuplicateAcceptedOnce ==
    \A m1, m2 \in Sent :
        (m1 # m2 /\ envelope[m1] = envelope[m2]) =>
            ~(HasRecord(m1) /\ Applied(m1) /\ HasRecord(m2) /\ Applied(m2))

\* ----------------------------------------------------------------- C11
\* The invocation of m threw inside its try block and has not yet ended.
Failing(m) == pc[m] = "release" /\ error[m] # "none"

FailedNotificationsOf(m) == {n \in notifications : n.type = "BID_FAILED" /\ n.msg = m}

FailedAuditsOf(m) == {x \in audit : x.action = "BID_FAILED" /\ x.msg = m}

\* C11: every processBid failure ends with the message nacked (never acked),
\* exactly one BID_FAILED notification for the user of the envelope carrying
\* the reason, and exactly one audit entry with success = false and the reason;
\* a message whose invocation did not fail has neither.
C11_FailureNackedNotifiedAudited ==
    \A m \in Sent :
        /\ Failing(m) =>
              /\ FailedNotificationsOf(m) = {FailedNotification(m, envelope[m], error[m])}
              /\ \A n \in FailedNotificationsOf(m) :
                    n.userId = envelope[m].userId /\ n.error = error[m]
              /\ Cardinality(FailedAuditsOf(m)) = 1
              /\ \A x \in FailedAuditsOf(m) : ~x.success /\ x.error = error[m]
        /\ pc[m] = "nacked" =>
              /\ Cardinality(FailedNotificationsOf(m)) = 1
              /\ \A n \in FailedNotificationsOf(m) : n.userId = envelope[m].userId
              /\ Cardinality(FailedAuditsOf(m)) = 1
              /\ \A x \in FailedAuditsOf(m) : ~x.success
        /\ (pc[m] \notin {"nacked", "release"} \/ (pc[m] = "release" /\ error[m] = "none")) =>
              FailedNotificationsOf(m) = {} /\ FailedAuditsOf(m) = {}

\* A store write failed after the bid record was inserted, and the message
\* was nacked.
C11_Witness ==
    \E m \in Sent :
        /\ pc[m] = "nacked"
        /\ HasRecord(m)
        /\ \E n \in FailedNotificationsOf(m) : n.error = "store error"
        /\ \E x \in FailedAuditsOf(m) : ~x.success /\ x.error = "store error"

\* ------------------------------------------------------ gateway vocabulary
\* The connected sockets of an address or of a user.
OpenFrom(k) ==
    {s \in Sockets :
        sockets[s].pc = "open" /\ (sockets[s].clientIP = k \/ sockets[s].user = k)}

\* The tracking keys of an address or a user tell its connected sockets.
Tracked(k) ==
    /\ socketSet[k].members = OpenFrom(k)
    /\ connCount[k].value = Cardinality(OpenFrom(k))

\* Socket s is in the per-address and per-user sets and has its descriptor.
Recorded(s) ==
    /\ s \in socketSet[sockets[s].clientIP].members
    /\ sockets[s].user # NoUser
    /\ s \in socketSet[sockets[s].user].members
    /\ socketInfo[s].ttl # 0

\* This step is the first admission check of s, and the cache answered it.
AddressChecked(s) ==
    /\ sockets[s].pc = "idle"
    /\ sockets'[s].pc # "idle"
    /\ ~sockets'[s].checkError

\* This step is the second admission check of s, and the cache answered both.
IdentityChecked(s) ==
    /\ sockets[s].pc = "authenticate"
    /\ sockets'[s].pc # "authenticate"
    /\ sockets[s].token # NoUser
    /\ ~sockets[s].checkError
    /\ ~sockets'[s].checkError

C15_ConnectionsWithinCaps ==
    /\ \A ip \in Addresses : Cardinality(OpenFrom(ip)) <= MaxConnectionsPerIP
    /\ \A u \in Users : Cardinality(OpenFrom(u)) <= MaxConnectionsPerUser

\* ----------------------------------------------------------------- C16
\* C16: while the block flag of an address exists, the admission check denies
\* without reading the counts, and a handshake of the address whose check the
\* cache answers is closed at the address check, before its token is looked
\* at, leaving the cache as it is; and when the flag's time has run out with
\* fewer than 5 sockets of the address connected, a handshake of the address
\* is admitted.
C16_BlockedThenAdmitted ==
    /\ [](\A ip \in Addresses :
            Blocked(blockFlag, ip) =>
                /\ ~CheckConnectionLimit(ip, NoUser).allowed
                /\ ~CheckConnectionLimit(ip, NoUser).countsRead)
    /\ [][\A s \in Sockets :
            LET ip == sockets[s].clientIP IN
            (AddressChecked(s) /\ Blocked(blockFlag, ip)) =>
                sockets'[s].pc = "closed" /\ cache' = cache]_vars
    /\ [][\A ip \in Addresses :
            ( /\ Blocked(blockFlag, ip) /\ ~Blocked(blockFlag', ip)
              /\ Cardinality(OpenFrom(ip)) < MaxConnectionsPerIP ) =>
                connCount'[ip].value < MaxConnectionsPerIP]_vars

\* ----------------------------------------------------------------- C17
\* C17: an admission check in which a cache call throws lets the handshake
\* go on (to the token check, or to tracking) and leaves the block flags as
\* they are.
C17_FailOpen ==
    [][\A s \in Sockets :
        (~sockets[s].checkError /\ sockets'[s].checkError) =>
            /\ blockFlag' = blockFlag
            /\ \/ sockets[s].pc = "idle" /\ sockets'[s].pc = "authenticate"
                  /\ sockets'[s].limitCheck = "allowed"
               \/ sockets[s].pc = "authenticate" /\ sockets'[s].pc = "track"
                  /\ sockets'[s].userLimitCheck = "allowed"]_vars

\* A handshake went on after a check that threw although the address was at
\* its cap, and the socket is connected as the sixth.
C17_Witness ==
    \E s \in Sockets :
        /\ sockets[s].checkError
        /\ sockets[s].pc = "open"
        /\ Cardinality(OpenFrom("x")) > MaxConnectionsPerIP
        /\ \A k \in Keys : blockFlag[k] = 0

\* ----------------------------------------------------------------- C18
\* This step emits the connected acknowledgement to s.
ConnectedEmitted(s) ==
    /\ Len(emitted'[s]) = Len(emitted[s]) + 1
    /\ emitted'[s][Len(emitted'[s])] = "connected"

\* A socket that was denied or whose token failed: closed, in no tracking key,
\* not in userSockets, and nothing was emitted to it.
ClosedUntouched(s) ==
    sockets[s].pc = "closed" =>
        /\ emitted[s] = <<>>
        /\ \A k \in Keys : s \notin socketSet[k].members
        /\ socketInfo[s].ttl = 0
        /\ \A u \in Users : s \notin userSockets[u]

\* C18: connected is emitted to a socket only when the address check
\* passed, the token was verified, the identity check passed and the socket is
\* recorded in the per-address and per-user tracking; a socket denied or
\* failing at a step is closed, never tracked and never gets connected.
C18_ConnectedOnlyWhenRecorded ==
    /\ [](\A s \in Sockets : ClosedUntouched(s))
    /\ [][\A s \in Sockets :
            ConnectedEmitted(s) =>
                /\ sockets[s].limitCheck = "allowed"
                /\ sockets[s].token # NoUser /\ sockets[s].user = sockets[s].token
                /\ sockets[s].userLimitCheck = "allowed"
                /\ Recorded(s)']_vars

\* ----------------------------------------------------------------- C12
\* Every intent was sent, every published envelope was delivered, and every
\* handler invocation has ended: no step of the gateway or of the processor is
\* left that could emit to a socket.
Quiescent ==
    /\ Placed = MaxEvents
    /\ queue = <<>>
    /\ \A m \in Msgs : pc[m] = "unsent" \/ Settled(m)

\* The sockets whose connection belongs to user u.
SocketsOf(u) == {s \in Sockets : sockets[s].pc = "open" /\ sockets[s].user = u}

\* A BID_FAILED notification or an error event was emitted to socket s.
FailureEmitted(s) ==
    \E i \in 1..Len(emitted[s]) : emitted[s][i] \in {"notification", "error"}

\* C12: when the processor has rejected an envelope that a connected socket
\* enqueued, and nothing is left to run, a BID_FAILED notification or an error
\* event has been emitted to a socket of the envelope's user.
C12_RejectedBidReachesSocket ==
    Quiescent =>
        \A m \in Msgs :
            pc[m] = "nacked" =>
                \E s \in SocketsOf(envelope[m].userId) : FailureEmitted(s)

\* ----------------------------------------------------------------- C19
\* This step is handlePlaceBid on socket s.
PlacesBid(s) == sockets'[s].sent = sockets[s].sent + 1

\* This step appends one envelope to the queue, with user u.
EnqueuesOneFor(u) ==
    /\ Len(queue') = Len(queue) + 1
    /\ SubSeq(queue', 1, Len(queue)) = queue
    /\ queue'[Len(queue')].userId = u

C20_ExpiredTokenRefused ==
    [][\A s \in Sockets :
        (sockets[s].expired /\ PlacesBid(s)) => queue' = queue]_vars

\* ----------------------------------------------------------------- C13
\* This step is an accepted POST /bids that created record new.
HttpAccepted(new) == new \in bids' \ bids /\ new.id \in HttpBids

\* The bid records as processBid leaves them after accepting new: every other
\* winning record of the auction not winning and OUTBID.
ProcessorSweep(b, new) ==
    IF b.auctionId = new.auctionId /\ b.isWinning
    THEN [b EXCEPT !.isWinning = FALSE, !.status = "OUTBID"]
    ELSE b

\* C13: in every store state BidsService.placeBid accepts every request that
\* processBid would accept; a request that POST /bids accepts is one that
\* processBid would accept, and it leaves the bid records and the auction
\* record as processBid would.
C13_HttpMatchesProcessor ==
    /\ [](\A a \in Auctions, u \in Users, amt \in BidAmounts :
            ProcessBidAccepts(a, u, amt) => PlaceBidAccepts(a, u, amt))
    /\ [][\A new \in bids' :
            HttpAccepted(new) =>
                /\ ProcessBidAccepts(new.auctionId, new.userId, new.bidAmount)
                /\ bids' = {ProcessorSweep(b, new) : b \in bids} \cup {new}
                /\ auctions'[new.auctionId].currentHighestBid = new.bidAmount
                /\ auctions'[new.auctionId].winnerId = new.userId
                /\ auctions'[new.auctionId].bidCount =
                       auctions[new.auctionId].bidCount + 1]_vars

\* ----------------------------------------------------------------- C26
\* This step is the finally block of the invocation for m: releaseLock, after
\* which the invocation has ended.
Terminates(m) == pc[m] = "release" /\ pc'[m] \in {"acked", "nacked"}

\* C26: the releaseLock of an invocation that did not acquire the lock leaves
\* the lock keys as they are.
C26_ReleaseByNonHolderKeepsLock ==
    [][\A m \in Msgs :
        (Terminates(m) /\ ~lockAcquired[m]) => locks' = locks]_vars

\* ----------------------------------------------------------------- C27
\* This step is the auction update of the invocation for m, and the auction's
\* currentHighestBid is no longer the one the invocation read.
StaleUpdate(m) ==
    /\ pc[m] = "updateAuction"
    /\ pc'[m] # "updateAuction"
    /\ envelope[m].auctionId \in DOMAIN auctions
    /\ auctions[envelope[m].auctionId].currentHighestBid # auction[m].currentHighestBid

\* C27: an auction update whose invocation read a currentHighestBid that has
\* changed since is not applied, and the invocation ends as a rejection.
C27_StaleUpdateRejected ==
    [][\A m \in Msgs :
        StaleUpdate(m) =>
            /\ auctions' = auctions
            /\ pc'[m] = "release"
            /\ error'[m] # "none"]_vars

\* ----------------------------------------------------------------- C28
\* This step is the auction update of the invocation for m, and it failed.
UpdateFailed(m) ==
    /\ pc[m] = "updateAuction"
    /\ pc'[m] = "release"
    /\ error'[m] # "none"

\* C28: when the auction update fails, the record of the new bid is gone or
\* neither winning nor ACCEPTED, and if the auction had bids before, one of
\* them is winning.
C28_FailedUpdateLeavesNoTrace ==
    [][\A m \in Msgs :
        UpdateFailed(m) =>
            /\ \A b \in bids' : b.id = m => (~b.isWinning /\ b.status # "ACCEPTED")
            /\ (\E b \in bids' : b.id # m /\ b.auctionId = envelope[m].auctionId) =>
                   \E b \in bids' :
                       b.id # m /\ b.auctionId = envelope[m].auctionId /\ b.isWinning]_vars

\* ----------------------------------------------------------------- C29
\* C29: a lock key that exists was set by an invocation that has not ended,
\* and when an invocation that acquired the lock ends, on whichever path, the
\* lock key of its auction does not exist, so the next acquireLock succeeds.
C29_LockFreeAfterTermination ==
    /\ [](\A a \in locks :
            \E m \in Msgs :
                /\ lockAcquired[m]
                /\ envelope[m].auctionId = a
                /\ pc[m] \notin {"unsent", "acked", "nacked"})
    /\ [][\A m \in Msgs :
            (Terminates(m) /\ lockAcquired[m]) =>
                envelope[m].auctionId \notin locks']_vars

\* An invocation that acquired the lock was rejected by the validation and
\* has ended, and a later envelope for the same auction has acquired the lock.
C29_Witness ==
    \E m1, m2 \in Msgs :
        /\ m1 < m2
        /\ pc[m1] = "nacked"
        /\ \E n \in FailedNotificationsOf(m1) : n.error = "Bid must be at least"
        /\ envelope[m2].auctionId = envelope[m1].auctionId
        /\ lockAcquired[m2]

\* ----------------------------------------------------------------- C30
\* This step is handleDisconnect of the connected socket s.
Leaves(s) == sockets[s].pc = "open" /\ sockets'[s].pc = "left"

\* C30: after the untrackConnection of a socket that was tracked, the socket
\* is in no tracking set, its descriptor is gone, and the count key of its
\* address and of its user tell the members of their sets (no key for an
\* emptied set).
C30_UntrackReversesTrack ==
    [][\A s \in Sockets :
        (Leaves(s) /\ ~sockets[s].trackError) =>
            /\ \A k \in Keys : s \notin socketSet'[k].members
            /\ socketInfo'[s] = NoInfo
            /\ \A k \in {sockets[s].clientIP, sockets[s].user} :
                 connCount'[k].value = Cardinality(socketSet'[k].members)]_vars

\* ----------------------------------------------------------------- C25
\* C25: with POST /bids requests running at once and next to the processor,
\* an auction with no write of the processor in progress has at most one
\* winning bid, whose amount is currentHighestBid, and currentHighestBid
\* never decreases.
C25_HttpKeepsInvariants ==
    /\ [](\A a \in DOMAIN auctions :
            NoWriteInProgress(a) =>
                /\ Cardinality(WinningBids(a)) <= 1
                /\ \A b \in WinningBids(a) : b.bidAmount = auctions[a].currentHighestBid)
    /\ [][\A a \in DOMAIN auctions \cap DOMAIN auctions' :
            auctions'[a].currentHighestBid >= auctions[a].currentHighestBid]_vars

\* ------------------------------------------------------------------ C21
\* The bidUpdate events among received that carry the bid update of message m.
BidUpdatesIn(received, m) ==
    Cardinality({i \in 1..Len(received) :
                   /\ received[i].event = "bidUpdate"
                   /\ received[i].msg = m})

\* The bidUpdate events socket s has received for the bid update of message m.
BidUpdatesOf(s, m) == BidUpdatesIn(broadcast[s], m)

\* The step in which the instance receives a bid update from the bus.
DeliversBidUpdate ==
    /\ bus # <<>>
    /\ bus' = Tail(bus)
    /\ Head(bus).type = "BID_UPDATE"

\* C21: when a bid update published on an auction's bid channel is delivered,
\* every socket in the auction's room at that time receives exactly one
\* bidUpdate for it, however many sockets have joined, and every other socket
\* receives none; no socket ever holds two bidUpdate events of one bid update.
C21_OneBidUpdatePerRoomSocket ==
    /\ [](\A s \in Sockets : \A m \in Msgs : BidUpdatesOf(s, m) <= 1)
    /\ [][DeliversBidUpdate =>
            \A s \in Sockets :
               LET m == Head(bus).msg
                   a == Head(bus).auctionId IN
               /\ s \in room[a] =>
                    /\ BidUpdatesIn(broadcast'[s], m) = BidUpdatesOf(s, m) + 1
                    /\ Len(broadcast'[s]) = Len(broadcast[s]) + 1
               /\ s \notin room[a] => broadcast'[s] = broadcast[s]]_vars

\* Two sockets have joined the room and each holds exactly one bidUpdate of
\* the first bid, while a connected socket outside the room holds none.
C21_Witness ==
    /\ \A s \in 1..MaxRoomSockets :
          /\ "a1" \in subscribedAuctions[s]
          /\ s \in room["a1"]
          /\ BidUpdatesOf(s, 1) = 1
    /\ sockets[Residents].pc = "open"
    /\ broadcast[Residents] = <<>>

\* ------------------------------------------------------------------ C22
\* The bidUpdate events socket s has received, in the order received.
BidUpdatesSeen(s) ==
    SelectSeq(broadcast[s], LAMBDA ev : ev.event = "bidUpdate")

\* C22: the bidAmount values of the bidUpdate events any one socket has
\* received for the auction are strictly increasing.
C22_BidUpdatesStrictlyIncrease ==
    \A s \in Sockets :
       \A i, j \in 1..Len(BidUpdatesSeen(s)) :
          i < j => BidUpdatesSeen(s)[i].bidAmount < BidUpdatesSeen(s)[j].bidAmount

\* ------------------------------------------------------------------ C23
\* The events named event among received.
EventsIn(received, event) ==
    Cardinality({i \in 1..Len(received) : received[i].event = event})

\* The step in which the instance receives an auction-end event that names a
\* winner.
DeliversAuctionEnd ==
    /\ bus # <<>>
    /\ bus' = Tail(bus)
    /\ Head(bus).type = "AUCTION_ENDED"
    /\ Head(bus).userId \in Users

\* C23: when an auction-end event naming a winner is delivered, every socket
\* in the auction's room receives exactly one auctionEnd, every connected
\* socket of the winner exactly one auctionWon, and no other socket an
\* auctionWon.
C23_AuctionEndAndWon ==
    [][DeliversAuctionEnd =>
         \A s \in Sockets :
            LET a == Head(bus).auctionId
                winner == Head(bus).userId IN
            /\ s \in room[a] =>
                 EventsIn(broadcast'[s], "auctionEnd") =
                    EventsIn(broadcast[s], "auctionEnd") + 1
            /\ s \in userSockets[winner] =>
                 EventsIn(broadcast'[s], "auctionWon") =
                    EventsIn(broadcast[s], "auctionWon") + 1
            /\ s \notin userSockets[winner] =>
                 EventsIn(broadcast'[s], "auctionWon") =
                    EventsIn(broadcast[s], "auctionWon")]_vars

\* ------------------------------------------------------------------ C24
\* An ACTIVE auction whose endTime has passed.
Overdue(a) ==
    /\ a \in DOMAIN auctions
    /\ auctions[a].status = "ACTIVE"
    /\ clock > auctions[a].endTime

\* C24: an ACTIVE auction whose endTime has passed eventually has status
\* ENDED, with every socket in its room having received auctionEnd.
C24_OverdueAuctionEnds ==
    \A a \in Auctions :
       Overdue(a) ~>
          /\ auctions[a].status = "ENDED"
          /\ \A s \in room[a] : EventsIn(broadcast[s], "auctionEnd") >= 1

\* ------------------------------------------------------------------ C31
\* C31: once an auction's status is ENDED, no step changes its
\* currentHighestBid or its bidCount.
C31_EndedAuctionFrozen ==
    [][\A a \in DOMAIN auctions \cap DOMAIN auctions' :
          auctions[a].status = "ENDED" =>
             /\ auctions'[a].currentHighestBid = auctions[a].currentHighestBid
             /\ auctions'[a].bidCount = auctions[a].bidCount]_vars

\* ------------------------------------------------------------------ C32
\* The step that delivers message m to the handler.
Delivered(m) == pc[m] = "unsent" /\ pc'[m] # "unsent"

\* C32: a delivered message is settled exactly once, acked when the handler
\* returned normally and nacked when it threw; a settled message stays as it
\* was settled and is not delivered again, and a message once delivered is
\* never delivered a second time.
C32_SettledExactlyOnce ==
    [][\A m \in Msgs :
          /\ Settled(m) => pc'[m] = pc[m]
          /\ ~Settled(m) /\ Settled(m)' =>
                /\ pc[m] = "release"
                /\ pc'[m] = "acked" <=> error[m] = "none"
          /\ pc[m] # "unsent" => ~Delivered(m) /\ pc'[m] # "unsent"]_vars

\* One message was acked after its bid was stored and another was nacked
\* after its handler threw.
C32_Witness ==
    \E m, k \in Msgs :
       /\ pc[m] = "acked"
       /\ \E b \in bids : b.id = m
       /\ pc[k] = "nacked"
       /\ \E n \in notifications : n.type = "BID_FAILED" /\ n.msg = k

\* ------------------------------------------------------------------ C33
\* Nothing has reached the broker or the consumer, and the store is as it was
\* created.
NothingProcessed ==
    /\ queue = <<>>
    /\ \A m \in Msgs : pc[m] = "unsent"
    /\ notifications = {}
    /\ audit = {}
    /\ bids = {}
    /\ \A a \in DOMAIN auctions :
          /\ auctions[a].currentHighestBid = StartingBid
          /\ auctions[a].bidCount = 0

\* C33: when the adapter has no channel, nothing is ever enqueued for bid
\* processing, as a notification or as an audit entry, the consumer handles no
\* message, and a placeBid of a socket with an identity still emits
\* bidReceived while no auction or bid record changes.
C33_DisabledBrokerDropsPublications ==
    /\ [](~channel => NothingProcessed)
    /\ [][\A s \in Sockets :
            ~channel /\ PlacesBid(s) /\ sockets[s].user # NoUser =>
               /\ emitted'[s] = Append(emitted[s], "bidReceived")
               /\ queue' = queue
               /\ auctions' = auctions
               /\ bids' = bids]_vars

\* Without a channel, a socket of u1 has placed a bid and got bidReceived, and
\* nothing is queued.
C33_Witness ==
    /\ ~channel
    /\ queue = <<>>
    /\ \E s \in SocketsOf("u1") :
         sockets[s].sent = 1 /\ emitted[s] = <<"connected", "bidReceived">>

\* ------------------------------------------------------------------ C34
\* This step ends the post-processing of message m, with or without a failure.
EndsPostProcessing(m) == pc[m] = "post" /\ pc'[m] # "post"

\* C34: whether the post-processing of an accepted bid fails or not, it
\* changes no bid and no auction record and hands no error to the consumer,
\* and the invocation then releases the lock and the message is acked.
C34_PostProcessingFailureKeepsOutcome ==
    [][\A m \in Msgs :
          /\ EndsPostProcessing(m) =>
                /\ pc'[m] = "release"
                /\ error'[m] = "none"
                /\ bids' = bids
                /\ auctions' = auctions
          /\ pc[m] = "release" /\ pc'[m] # "release" /\ error[m] = "none" =>
                /\ pc'[m] = "acked"
                /\ envelope[m].auctionId \notin locks'
                /\ bids' = bids]_vars

\* The post-processing of a message failed: it was acked, its bid is ACCEPTED
\* and winning in the store, the lock is free, and no success notification or
\* audit entry exists for it.
C34_Witness ==
    \E m \in Msgs :
       /\ pc[m] = "acked"
       /\ \E b \in bids : b.id = m /\ b.status = "ACCEPTED" /\ b.isWinning
       /\ locks = {}
       /\ \A n \in notifications : n.msg # m
       /\ \A x \in audit : x.msg # m

\* ------------------------------------------------------------------ C35
\* C35: every stored bid that is no longer winning has status OUTBID, and
\* every bid with status OUTBID has a stored bid of strictly higher amount in
\* the same auction.
C35_OutbidIffHigherBid ==
    \A b \in bids :
       /\ ~b.isWinning => b.status = "OUTBID"
       /\ b.status = "OUTBID" =>
            \E c \in bids : /\ c.auctionId = b.auctionId
                            /\ c.bidAmount > b.bidAmount

\* ------------------------------------------------------------------ C36
\* C36: no two accepted bids of one auction carry the same timestamp.
C36_AcceptedTimestampsDistinct ==
    \A a \in Auctions :
       \A b1, b2 \in AcceptedBids(a) :
          b1.id # b2.id => b1.timestamp # b2.timestamp

\* ------------------------------------------------------------------ C37
\* The errors processBid throws before the insert.
RejectionsBeforeInsert ==
    {"Could not acquire lock for bid processing", "Auction not found",
     "Auction is not active", "Auction has not started yet", "Auction has ended",
     "Bid must be at least", "User not found"}

\* The invocation of message m was rejected before the insert.
RejectedBeforeInsert(m) ==
    \E n \in FailedNotificationsOf(m) : n.error \in RejectionsBeforeInsert

\* This step is one of the invocation of message m.
StepOf(m) == pc'[m] # pc[m]

\* C37: a bid rejected before the insert never gets a bid record and never
\* reaches the post-processing that publishes the bid update, and the steps of
\* its invocation, the rejection and the release of the lock, change no
\* auction and no bid record and publish nothing on the bid channel.
C37_RejectionLeavesRecordsUnchanged ==
    /\ [](\A m \in Msgs :
            RejectedBeforeInsert(m) =>
               /\ ~HasRecord(m)
               /\ pc[m] \in {"release", "nacked"}
               /\ \A n \in notifications : n.msg = m => n.type = "BID_FAILED")
    /\ [][\A m \in Msgs :
            StepOf(m) /\ RejectedBeforeInsert(m)' =>
               /\ auctions' = auctions
               /\ bids' = bids
               /\ bus' = bus]_vars

\* After one bid was accepted, a bid below the new minimum was rejected and
\* nacked: the accepted bid is still the winning one and bidCount is still 1.
C37_Witness ==
    \E m \in Msgs :
       /\ pc[m] = "nacked"
       /\ \E n \in FailedNotificationsOf(m) : n.error = "Bid must be at least"
       /\ \E b \in bids : b.isWinning /\ b.status = "ACCEPTED" /\ b.id # m
       /\ auctions["a1"].bidCount = 1

\* ------------------------------------------------------------------ C38
\* C38: no socket receives an auctionUpdate whose currentHighestBid is lower
\* than the bidAmount of a bidUpdate it received before for the same auction.
C38_SnapshotNotOlderThanBidUpdates ==
    \A s \in Sockets :
       \A i, j \in 1..Len(broadcast[s]) :
          /\ i < j
          /\ broadcast[s][i].event = "bidUpdate"
          /\ broadcast[s][j].event = "auctionUpdate"
          /\ broadcast[s][i].auctionId = broadcast[s][j].auctionId
          => broadcast[s][j].bidAmount >= broadcast[s][i].bidAmount

\* ------------------------------------------------------------------ C39
\* Both handleConnection and handleDisconnect of socket s have finished.
BothFinished(s) == sockets[s].pc = "left"

\* C39: once the handshake handler and the disconnect handler of a socket
\* have both finished, the socket is in no set of userSockets and in no
\* per-address or per-identity set of the cache, and its descriptor is gone.
C39_NoTraceAfterDisconnect ==
    \A s \in Sockets :
       BothFinished(s) =>
          /\ \A u \in Users : s \notin userSockets[u]
          /\ \A k \in Keys : s \notin socketSet[k].members
          /\ socketInfo[s] = NoInfo

\* ------------------------------------------------------------------ C40
\* No processBid is in progress: every message is unsent or settled.
NoBidInProgress == \A m \in Msgs : pc[m] = "unsent" \/ Settled(m)

\* C40: after any sequence of processBid and endAuction operations, an
\* auction that has a winning bid has that bid's userId as its winnerId.
C40_WinnerIsWinningBidder ==
    NoBidInProgress =>
       \A a \in DOMAIN auctions :
          \A b \in WinningBids(a) : auctions[a].winnerId = b.userId

====
